---- MODULE Spec2Model ----
(***************************************************************************)
(* A model of proxify.py: the content detector, the border solidity        *)
(* checker, the frame classifier, the border-normalizing cropper, the card *)
(* renderer (resize_card), the sheet composer (create_printable_sheet) and *)
(* the batch loop of __main__.                                             *)
(*                                                                         *)
(* An image is a record [w, h, px]: px maps <<x, y>> (0-based, x the       *)
(* column) to the pixel's <<r, g, b>>.  Python's None is the empty tuple.  *)
(* A resized image is known by its size only: its pixels are the output of *)
(* the resampling filter, which no claim is about.                         *)
(***************************************************************************)
EXTENDS Integers, Sequences, FiniteSets, TLC

VARIABLES
  pc,        \* position of the running program or call
  arg,       \* the inputs of the call under way
  ret,       \* what the call returned (or the values it computed)
  files,     \* all_image_files: the sorted list of image paths
  sheet,     \* the sheet being composed: cell <<row, col>> -> pasted file or Blank
  idx,       \* current_image_index of create_printable_sheet
  sheets,    \* the sheets composed so far, in order: [chunk, saved]
  report     \* what the run printed about sheets and leftover files

vars == <<pc, arg, ret, files, sheet, idx, sheets, report>>

None == <<>>

(***************************************************************************)
(* Configuration (proxify.py lines 7-57).  The pixel values are the        *)
(* rounded millimetre conversions at 1200 DPI.                             *)
(***************************************************************************)
CARD_WIDTH_PX == 3000
CARD_HEIGHT_PX == 4200
BORDER_TOP_PX == 142
BORDER_LEFT_PX == 142
BORDER_RIGHT_PX == 142
BORDER_BOTTOM_PX == 194
EXTENDED_ART_SCAN_OFFSET_Y_PX == 142
FULL_ART_BOTTOM_CROP_PX == 80
BLACK_BORDER_THRESHOLD == 50
EDGE_ZONE_CHECK_WIDTH_PX == 10
FORCE_STANDARD_FRAME_TYPE == FALSE
MIN_CLASSIFY_HEIGHT == 20
CARDS_PER_SHEET == 9
GRID_COLS == 3
GRID_ROWS == 3
PAPER_WIDTH_PX == 10200
PAPER_HEIGHT_PX == 13200
MARGIN_X == (PAPER_WIDTH_PX - GRID_COLS * CARD_WIDTH_PX) \div 2
MARGIN_Y == (PAPER_HEIGHT_PX - GRID_ROWS * CARD_HEIGHT_PX) \div 2

Max(a, b) == IF a >= b THEN a ELSE b
Min(a, b) == IF a <= b THEN a ELSE b
SetMin(S) == CHOOSE m \in S : \A n \in S : m <= n
SetMax(S) == CHOOSE m \in S : \A n \in S : m >= n

(***************************************************************************)
(* Pixels and images.                                                      *)
(***************************************************************************)
Coords(w, h) == (0 .. w - 1) \X (0 .. h - 1)

\* The test of lines 94, 122, 135, 168, 185: a pixel is content iff one of its
\* R, G, B values exceeds the threshold.
IsContent(p, threshold) == p[1] > threshold \/ p[2] > threshold \/ p[3] > threshold

\* PIL's Image.crop((x0, y0, x1, y1)): the box may reach outside the image, and
\* the pixels outside it are zero; a box with x1 < x0 or y1 < y0 raises.
CropOk(box) == box[3] >= box[1] /\ box[4] >= box[2]
Crop(image, box) ==
  [w |-> box[3] - box[1],
   h |-> box[4] - box[2],
   px |-> [p \in Coords(box[3] - box[1], box[4] - box[2]) |->
             LET x == p[1] + box[1]
                 y == p[2] + box[2]
             IN IF x >= 0 /\ x < image.w /\ y >= 0 /\ y < image.h
                THEN image.px[<<x, y>>]
                ELSE <<0, 0, 0>>]]

(***************************************************************************)
(* get_content_bounding_box (lines 64-101).                                *)
(***************************************************************************)
\* The mask of line 95: the coordinates marked white.
ContentMask(image, threshold) ==
  {p \in Coords(image.w, image.h) : IsContent(image.px[p], threshold)}

\* Image.getbbox() of the mask: the box of its non-zero pixels, half-open.
\* Variant: the high corner taken as the last content pixel, not one past it.
GetBBoxMutInclusive(mask) ==
  LET xs == {p[1] : p \in mask}
      ys == {p[2] : p \in mask}
  IN <<SetMin(xs), SetMin(ys), SetMax(xs), SetMax(ys)>>
GetBBox(mask) ==
  LET xs == {p[1] : p \in mask}
      ys == {p[2] : p \in mask}
  IN <<SetMin(xs), SetMin(ys), SetMax(xs) + 1, SetMax(ys) + 1>>

get_content_bounding_box(image, threshold) ==
  IF image.w = 0 \/ image.h = 0
  THEN None
  ELSE LET mask == ContentMask(image, threshold)
       IN IF mask = {} THEN None ELSE GetBBox(mask)

(***************************************************************************)
(* get_content_extents_at_row (lines 103-139).  PIL's pixel access takes a *)
(* negative index as counted from the far edge and raises on an index      *)
(* outside the image; the callers' guard (line 270) keeps the row inside.  *)
(***************************************************************************)
RECURSIVE ScanFromLeft(_, _, _, _)
\* lines 117-124: the first x in x .. width-1 holding content, or -1.
ScanFromLeft(image, y_row, threshold, x) ==
  IF x >= image.w THEN -1
  ELSE IF IsContent(image.px[<<x, y_row>>], threshold) THEN x
  ELSE ScanFromLeft(image, y_row, threshold, x + 1)

RECURSIVE ScanFromRight(_, _, _, _, _)
\* lines 130-137: the first x in x, x-1, .. start holding content, else start.
ScanFromRight(image, y_row, threshold, x, start) ==
  IF x < start THEN start
  ELSE IF IsContent(image.px[<<x, y_row>>], threshold) THEN x
  ELSE ScanFromRight(image, y_row, threshold, x - 1, start)

\* Variant: without the scan from the right.
get_content_extents_at_rowMutFirst(image, y_row, threshold) ==
  LET content_start_x == ScanFromLeft(image, y_row, threshold, 0)
  IN IF content_start_x = -1 THEN None
     ELSE <<content_start_x, content_start_x>>
get_content_extents_at_row(image, y_row, threshold) ==
  LET content_start_x == ScanFromLeft(image, y_row, threshold, 0)
  IN IF content_start_x = -1
     THEN None
     ELSE <<content_start_x,
            ScanFromRight(image, y_row, threshold, image.w - 1, content_start_x)>>

(***************************************************************************)
(* check_strip_for_solid_lr_border (lines 141-193).                        *)
(***************************************************************************)
\* lines 164-172 and 181-189: no pixel of columns x_from .. x_to-1 is content.
ColumnsSolid(strip, x_from, x_to, threshold) ==
  \A x_coord \in x_from .. x_to - 1 : \A y_coord \in 0 .. strip.h - 1 :
    ~IsContent(strip.px[<<x_coord, y_coord>>], threshold)

\* Variant: the right edge is not checked.
check_strip_for_solid_lr_borderMutLeftOnly(strip_image, check_width_px, threshold) ==
  IF strip_image.h = 0 \/ strip_image.w < 2 * check_width_px
  THEN FALSE
  ELSE check_width_px > 0 /\ ColumnsSolid(strip_image, 0, check_width_px, threshold)
check_strip_for_solid_lr_border(strip_image, check_width_px, threshold) ==
  IF strip_image.h = 0 \/ strip_image.w < 2 * check_width_px
  THEN FALSE
  ELSE LET left_border_is_solid ==
             IF check_width_px > 0
             THEN ColumnsSolid(strip_image, 0, check_width_px, threshold)
             ELSE FALSE
       IN IF ~left_border_is_solid
          THEN FALSE
          ELSE IF check_width_px > 0
               THEN ColumnsSolid(strip_image, strip_image.w - check_width_px,
                                 strip_image.w, threshold)
               ELSE FALSE

(***************************************************************************)
(* determine_card_type (lines 195-228).  int(height * 0.05),               *)
(* int(height * 0.50) and int(height * 0.60) are height \div 20,           *)
(* height \div 2 and (3 * height) \div 5 for every height a file can have. *)
(***************************************************************************)
\* line 204
min_zone_height(edge_check_pixel_width) ==
  Max(1, IF edge_check_pixel_width > 0 THEN edge_check_pixel_width \div 2 ELSE 1)

\* lines 206-207: the box of the top zone.
top_zone_box(width, height, edge_check_pixel_width) ==
  <<0, 0, width, Max(min_zone_height(edge_check_pixel_width), height \div 20)>>

\* lines 209-218: the box of the middle zone.
middle_zone_box(width, height, edge_check_pixel_width) ==
  LET min_zone == min_zone_height(edge_check_pixel_width)
      middle_zone_top_y == height \div 2
      middle_zone_bottom_y == (3 * height) \div 5
      calculated == middle_zone_bottom_y - middle_zone_top_y
      actual == Max(min_zone, calculated)
      top_y == IF actual = min_zone /\ calculated < min_zone
                  /\ middle_zone_top_y + actual > height
               THEN Max(0, height - actual)
               ELSE middle_zone_top_y
  IN <<0, top_y, width, top_y + actual>>

\* lines 223-228
\* Variant: standard and extended_art exchanged.
card_type_ofMutSwap(top_has_lr_border, middle_has_lr_border) ==
  IF top_has_lr_border /\ middle_has_lr_border THEN "extended_art"
  ELSE IF top_has_lr_border /\ ~middle_has_lr_border THEN "standard"
  ELSE "borderless"
card_type_of(top_has_lr_border, middle_has_lr_border) ==
  IF top_has_lr_border /\ middle_has_lr_border THEN "standard"
  ELSE IF top_has_lr_border /\ ~middle_has_lr_border THEN "extended_art"
  ELSE "borderless"

determine_card_type(image, threshold, edge_check_pixel_width) ==
  IF image.h < MIN_CLASSIFY_HEIGHT
  THEN "borderless"
  ELSE LET top_zone_img ==
             Crop(image, top_zone_box(image.w, image.h, edge_check_pixel_width))
           middle_zone_img ==
             Crop(image, middle_zone_box(image.w, image.h, edge_check_pixel_width))
       IN card_type_of(
            check_strip_for_solid_lr_border(top_zone_img, edge_check_pixel_width,
                                            threshold),
            check_strip_for_solid_lr_border(middle_zone_img, edge_check_pixel_width,
                                            threshold))

(***************************************************************************)
(* The border-normalizing crop of resize_card (lines 292-324).             *)
(***************************************************************************)
\* Python's round() of the quotient n / d (d > 0): to nearest, ties to even.
RoundHalfEven(n, d) ==
  LET q == n \div d
      r == n % d
  IN IF 2 * r < d THEN q
     ELSE IF 2 * r > d THEN q + 1
     ELSE IF q % 2 = 0 THEN q ELSE q + 1

\* lines 299-305 compute in IEEE double precision: scale = artwork / content is
\* rounded to 53 bits, border / scale is rounded to 53 bits, and round() takes
\* the nearest integer of that double, ties to even.  Unless border * content /
\* artwork is exactly k + 1/2 the two roundings are too small to matter (the
\* quotient is at least 1 / (2 * artwork) away from a tie) and the result is
\* the exact quotient rounded.  On an exact tie the error of the rounded scale
\* decides: the double border / scale is k + 1/2 itself, or the double next
\* below or above it.  The definitions hold for border * content < 2^29.

\* floor(log2(artwork / content)): the binary exponent of the scale.
ScaleExponent(final_artwork, current_content) ==
  IF final_artwork >= current_content
  THEN CHOOSE n \in 0 .. 29 :
         /\ final_artwork \div 2^n >= current_content
         /\ final_artwork \div 2^(n + 1) < current_content
  ELSE -(CHOOSE m \in 1 .. 30 :
           /\ final_artwork >= (current_content + 2^m - 1) \div 2^m
           /\ final_artwork < (current_content + 2^(m - 1) - 1) \div 2^(m - 1))

RECURSIVE ShiftMod(_, _, _)
\* (rem * 2^steps) mod current_content
ShiftMod(rem, current_content, steps) ==
  IF steps = 0 THEN rem
  ELSE ShiftMod((2 * rem) % current_content, current_content, steps - 1)

RECURSIVE FracCompare(_, _, _, _)
\* The sign of a / b - c / d (a, c >= 0 and b, d > 0), by continued fractions.
FracCompare(a, b, c, d) ==
  IF a \div b # c \div d THEN (IF a \div b < c \div d THEN -1 ELSE 1)
  ELSE IF a % b = 0 /\ c % d = 0 THEN 0
  ELSE IF c % d = 0 THEN 1
  ELSE IF a % b = 0 THEN -1
  ELSE FracCompare(d, c % d, b, a % b)

\* The sign of x * y - z * 2^shift (x, y, z > 0).
ProductCompare(x, y, z, shift) ==
  IF shift >= 0
  THEN IF shift <= 30 THEN FracCompare(x, z, 2^shift, y)
       ELSE IF z >= 2^(61 - shift) THEN -1
       ELSE FracCompare(x, z * 2^(shift - 30), 2^30, y)
  ELSE IF y >= 2^(31 + shift) THEN 1
       ELSE FracCompare(x, z, 1, y * 2^(-shift))

\* The binary exponent e of t / 2: 2^e <= t / 2 < 2^(e + 1).
BinaryExponent(t) == CHOOSE x \in -1 .. 28 : 2^(x + 1) <= t /\ t < 2^(x + 2)

\* round(border / scale) when border * content / artwork is exactly k + 1/2.
\* scale = M / 2^p with M the nearest integer of artwork * 2^p / content,
\* 2^52 <= M < 2^53, p = 52 - n; r = artwork * 2^p - M * content is its error
\* (rem, or rem - content when M was rounded up).  The exact border / scale is
\* k + 1/2 + (2k + 1) * r / (2 * M * content), and the doubles beside k + 1/2
\* are 2^(e - 52) apart: the double quotient leaves k + 1/2, towards the side
\* of r, iff (2k + 1) * |r| * 2^(52 - e) > M * content, that is iff
\* (2k + 1) * |r| exceeds artwork * 2^(e - n) - r / 2^(52 - e).
TieWithScaleError(k, final_artwork, current_content, n, rem) ==
  IF rem = 0 THEN RoundHalfEven(2 * k + 1, 2)
  ELSE IF 2 * rem < current_content
       THEN IF ProductCompare(2 * k + 1, rem, final_artwork,
                              BinaryExponent(2 * k + 1) - n) >= 0
            THEN k + 1
            ELSE RoundHalfEven(2 * k + 1, 2)
       ELSE IF ProductCompare(2 * k + 1, current_content - rem, final_artwork,
                              BinaryExponent(2 * k + 1) - n) > 0
            THEN k
            ELSE RoundHalfEven(2 * k + 1, 2)

TieWithExponent(k, final_artwork, current_content, n) ==
  TieWithScaleError(k, final_artwork, current_content, n,
                    ShiftMod(final_artwork % current_content, current_content, 52 - n))

RoundAtTie(k, final_artwork, current_content) ==
  TieWithExponent(k, final_artwork, current_content,
                  ScaleExponent(final_artwork, current_content))

\* lines 299-305: round(border / scale) with scale = artwork / content, and 0
\* when the scale is not above 1e-6 (content >= 1000000 * artwork).
\* Variant: the border multiplied by the scale instead of divided by it.
keep_orig_border_pxMutScale(border_px, final_artwork, current_content) ==
  IF current_content \div 1000000 < final_artwork
  THEN RoundHalfEven(border_px * final_artwork, current_content)
  ELSE 0
keep_orig_border_px(border_px, final_artwork, current_content) ==
  IF current_content \div 1000000 < final_artwork
  THEN IF 2 * ((border_px * current_content) % final_artwork) = final_artwork
       THEN RoundAtTie((border_px * current_content) \div final_artwork,
                       final_artwork, current_content)
       ELSE RoundHalfEven(border_px * current_content, final_artwork)
  ELSE 0

\* lines 296-310: the expanded crop rectangle of a content box of positive size.
\* Variant: the rectangle expanded without the clamp to the image of lines 307-310.
proportional_cropMutNoClamp(eff, original_w, original_h, target_w, target_h) ==
  LET final_artwork_width == Max(1, target_w - BORDER_LEFT_PX - BORDER_RIGHT_PX)
      final_artwork_height == Max(1, target_h - BORDER_TOP_PX - BORDER_BOTTOM_PX)
      current_content_width_orig == eff[3] - eff[1]
      current_content_height_orig == eff[4] - eff[2]
  IN <<eff[1] - keep_orig_border_px(BORDER_LEFT_PX, final_artwork_width,
                                    current_content_width_orig),
       eff[2] - keep_orig_border_px(BORDER_TOP_PX, final_artwork_height,
                                    current_content_height_orig),
       eff[3] + keep_orig_border_px(BORDER_RIGHT_PX, final_artwork_width,
                                    current_content_width_orig),
       eff[4] + keep_orig_border_px(BORDER_BOTTOM_PX, final_artwork_height,
                                    current_content_height_orig)>>
proportional_crop(eff, original_w, original_h, target_w, target_h) ==
  LET final_artwork_width == Max(1, target_w - BORDER_LEFT_PX - BORDER_RIGHT_PX)
      final_artwork_height == Max(1, target_h - BORDER_TOP_PX - BORDER_BOTTOM_PX)
      current_content_width_orig == eff[3] - eff[1]
      current_content_height_orig == eff[4] - eff[2]
      keep_left == keep_orig_border_px(BORDER_LEFT_PX, final_artwork_width,
                                       current_content_width_orig)
      keep_top == keep_orig_border_px(BORDER_TOP_PX, final_artwork_height,
                                      current_content_height_orig)
      keep_right == keep_orig_border_px(BORDER_RIGHT_PX, final_artwork_width,
                                        current_content_width_orig)
      keep_bottom == keep_orig_border_px(BORDER_BOTTOM_PX, final_artwork_height,
                                         current_content_height_orig)
  IN <<Max(0, eff[1] - keep_left),
       Max(0, eff[2] - keep_top),
       Min(original_w, eff[3] + keep_right),
       Min(original_h, eff[4] + keep_bottom)>>

\* lines 292-324: the image handed to the final resize on the standard and
\* extended_art paths, as the box cropped from the original and the branch taken.
\* lines 312-321: the expanded rectangle if it is not empty, else the content
\* box if it is valid, else the whole image.
crop_or_fallback(eff, original_w, original_h, crop) ==
  IF crop[3] > crop[1] /\ crop[4] > crop[2]
  THEN [box |-> crop, branch |-> "proportional"]
  ELSE IF eff[1] >= 0 /\ eff[2] >= 0 /\ eff[3] > eff[1] /\ eff[4] > eff[2]
       THEN [box |-> eff, branch |-> "content_box"]
       ELSE [box |-> <<0, 0, original_w, original_h>>,
             branch |-> "full_after_invalid_crop"]

border_crop(eff, original_w, original_h, target_w, target_h) ==
  IF eff[3] - eff[1] > 0 /\ eff[4] - eff[2] > 0
  THEN crop_or_fallback(eff, original_w, original_h,
                        proportional_crop(eff, original_w, original_h,
                                          target_w, target_h))
  ELSE [box |-> <<0, 0, original_w, original_h>>, branch |-> "full_degenerate"]

(***************************************************************************)
(* The bottom trim of the borderless path (lines 338-351), for a trim of   *)
(* bottom_crop_px pixels (FULL_ART_BOTTOM_CROP_PX in resize_card).         *)
(***************************************************************************)
\* Variant: the trim applied without the checks of lines 339-345.
borderless_cropMutNoClamp(original_w, original_h, bottom_crop_px) ==
  [box |-> <<0, 0, original_w, original_h - bottom_crop_px>>, branch |-> "trim"]
borderless_crop(original_w, original_h, bottom_crop_px) ==
  IF bottom_crop_px > 0
  THEN IF bottom_crop_px >= original_h
       THEN IF original_h > 0
            THEN [box |-> <<0, 0, original_w, 1>>, branch |-> "trim_to_1px"]
            ELSE [box |-> <<0, 0, Max(1, original_w), 1>>, branch |-> "new_image"]
       ELSE IF original_w > 0
            THEN [box |-> <<0, 0, original_w, Max(1, original_h - bottom_crop_px)>>,
                  branch |-> "trim"]
            ELSE [box |-> <<0, 0, 1, 1>>, branch |-> "new_image"]
  ELSE [box |-> <<0, 0, original_w, original_h>>, branch |-> "as_is"]

(***************************************************************************)
(* resize_card (lines 230-386).  A file is [exists, decodes, image]: a     *)
(* missing file makes Image.open raise FileNotFoundError, a file that does *)
(* not decode makes it (or convert) raise another exception.  The result   *)
(* records the values the function computed on its way.                    *)
(***************************************************************************)
NoCard(error) ==
  [outcome |-> "none", size |-> None, card_type |-> "", overall |-> None,
   effective |-> None, box |-> None, branch |-> "", error |-> error]

\* lines 256-283: the effective content box.
\* Variant: the whole image taken whenever the row scan gives no extents.
effective_contentMutFullImage(original_img, card_type, overall_content_bbox) ==
  LET eff == IF overall_content_bbox # None
             THEN overall_content_bbox
             ELSE <<0, 0, original_img.w, original_img.h>>
      vertical_sample_y == eff[2] + EXTENDED_ART_SCAN_OFFSET_Y_PX
  IN IF card_type = "extended_art" /\ overall_content_bbox # None
        /\ 0 <= vertical_sample_y /\ vertical_sample_y < original_img.h
     THEN LET cx_at_row == get_content_extents_at_row(original_img, vertical_sample_y,
                                                      BLACK_BORDER_THRESHOLD)
          IN IF cx_at_row # None /\ cx_at_row[1] <= cx_at_row[2]
             THEN <<cx_at_row[1], eff[2], cx_at_row[2], eff[4]>>
             ELSE <<0, 0, original_img.w, original_img.h>>
     ELSE IF card_type = "extended_art"
          THEN <<0, 0, original_img.w, original_img.h>>
          ELSE eff
effective_content(original_img, card_type, overall_content_bbox) ==
  LET eff == IF overall_content_bbox # None
             THEN overall_content_bbox
             ELSE <<0, 0, original_img.w, original_img.h>>
      vertical_sample_y == eff[2] + EXTENDED_ART_SCAN_OFFSET_Y_PX
  IN IF card_type = "extended_art" /\ overall_content_bbox # None
        /\ 0 <= vertical_sample_y /\ vertical_sample_y < original_img.h
     THEN LET cx_at_row == get_content_extents_at_row(original_img, vertical_sample_y,
                                                      BLACK_BORDER_THRESHOLD)
          IN IF cx_at_row # None /\ cx_at_row[1] <= cx_at_row[2]
             THEN <<cx_at_row[1], eff[2], cx_at_row[2], eff[4]>>
             ELSE eff
     ELSE eff

\* lines 326-333 and 353-359: Image.resize raises on a target below 1 x 1; an
\* image already of the target size is copied.
\* Variant: the cropped image returned without the resize.
final_sizeMutKeep(pre_size, target_w, target_h) == pre_size
final_size(pre_size, target_w, target_h) ==
  IF pre_size = <<target_w, target_h>> THEN pre_size
  ELSE IF target_w < 1 \/ target_h < 1 THEN None
  ELSE <<target_w, target_h>>

resize_card(file, target_final_card_width_px, target_final_card_height_px) ==
  IF ~file.exists THEN NoCard("FileNotFoundError")
  ELSE IF ~file.decodes THEN NoCard("Exception")
  ELSE
    LET original_img == file.image
        card_type ==
          IF FORCE_STANDARD_FRAME_TYPE THEN "standard"
          ELSE determine_card_type(original_img, BLACK_BORDER_THRESHOLD,
                                   EDGE_ZONE_CHECK_WIDTH_PX)
        overall_content_bbox ==
          get_content_bounding_box(original_img, BLACK_BORDER_THRESHOLD)
        eff == effective_content(original_img, card_type, overall_content_bbox)
        pre == IF card_type = "standard" \/ card_type = "extended_art"
               THEN border_crop(eff, original_img.w, original_img.h,
                                target_final_card_width_px,
                                target_final_card_height_px)
               ELSE borderless_crop(original_img.w, original_img.h,
                                    FULL_ART_BOTTOM_CROP_PX)
        size == IF CropOk(pre.box)
                THEN final_size(<<pre.box[3] - pre.box[1], pre.box[4] - pre.box[2]>>,
                                target_final_card_width_px,
                                target_final_card_height_px)
                ELSE None
    IN IF size = None
       THEN [NoCard("Exception") EXCEPT !.card_type = card_type,
                                        !.overall = overall_content_bbox,
                                        !.effective = eff, !.box = pre.box,
                                        !.branch = pre.branch]
       ELSE [outcome |-> "card", size |-> size, card_type |-> card_type,
             overall |-> overall_content_bbox, effective |-> eff,
             box |-> pre.box, branch |-> pre.branch, error |-> ""]

(***************************************************************************)
(* Inputs.  A drawn image is given by its size and the rectangles of       *)
(* content (white) on a background of black.                               *)
(***************************************************************************)
White == <<255, 255, 255>>
Black == <<0, 0, 0>>

InRect(p, r) == r[1] <= p[1] /\ p[1] < r[3] /\ r[2] <= p[2] /\ p[2] < r[4]

Render(desc) ==
  [w |-> desc.w, h |-> desc.h,
   px |-> [p \in Coords(desc.w, desc.h) |->
             IF \E r \in desc.rects : InRect(p, r) THEN White ELSE Black]]

OpenFile(f) == [exists |-> f.exists, decodes |-> f.decodes, image |-> Render(f.desc)]

\* Small images given pixel by pixel, for the detector and the solidity checker.
MaxW == 3
MaxH == 2
PixLit == {<<51, 0, 0>>, <<0, 51, 0>>, <<0, 0, 51>>}
PixDark == {<<0, 0, 0>>, <<50, 50, 50>>}
PixThresholds == {BLACK_BORDER_THRESHOLD, BLACK_BORDER_THRESHOLD + 1}
PixImage(w, h, lit, lc, dc) ==
  [w |-> w, h |-> h, px |-> [p \in Coords(w, h) |-> IF p \in lit THEN lc ELSE dc]]

\* Card images: a frame around an art box, with or without artwork bleeding to
\* the side edges at mid-height, and with the row of the extended-art scan
\* full, holding a single pixel, or empty.
CardSizes == {<<1, 1>>, <<30, 19>>, <<19, 40>>, <<30, 20>>, <<30, 80>>, <<30, 81>>,
              <<30, 200>>}
SideMargins == {0, 10, 12}
TopMargins == {0, 12}
BottomMargins == {0, 12}
CardKinds == {"black", "frame", "bleed", "pinhole", "gap", "cap"}

CardRects(w, h, l, t, r, b, kind) ==
  LET band == <<0, h \div 2, w, h \div 2 + 1>>
      cap == <<l, t, w - r, t + 2>>
      scan_y == t + EXTENDED_ART_SCAN_OFFSET_Y_PX
  IN CASE kind = "black" -> {}
       [] kind = "frame" -> {<<l, t, w - r, h - b>>}
       [] kind = "bleed" -> {<<l, t, w - r, h - b>>, band}
       [] kind = "pinhole" -> {cap, band, <<l + 3, scan_y, l + 4, scan_y + 1>>}
       [] kind = "gap" -> {cap, band}
       [] kind = "cap" -> {cap}

CardImages ==
  {[w |-> s[1], h |-> s[2], rects |-> CardRects(s[1], s[2], m[1], m[2], m[3], m[4], k)]
     : <<s, m, k>> \in
         {x \in CardSizes \X (SideMargins \X TopMargins \X SideMargins \X BottomMargins)
                  \X CardKinds :
            x[2][1] + x[2][3] < x[1][1] /\ x[2][2] + x[2][4] + 2 <= x[1][2]}}

NoImage == [w |-> 0, h |-> 0, rects |-> {}]
MissingFile == [exists |-> FALSE, decodes |-> FALSE, desc |-> NoImage]
CorruptFile == [exists |-> TRUE, decodes |-> FALSE, desc |-> NoImage]
CardFiles ==
  {[exists |-> TRUE, decodes |-> TRUE, desc |-> d] : d \in CardImages}
  \cup {MissingFile, CorruptFile}

EdgeWidths == {-1, 0, 1, EDGE_ZONE_CHECK_WIDTH_PX, 15, 42}
TrimValues == {0, 1, 19, FULL_ART_BOTTOM_CROP_PX, 81, 200}

Idle == [files |-> <<>>, sheet |-> <<>>, idx |-> <<>>, sheets |-> <<>>, report |-> <<>>]
ProgramIdle ==
  /\ files = Idle.files /\ sheet = Idle.sheet /\ idx = Idle.idx
  /\ sheets = Idle.sheets /\ report = Idle.report

(***************************************************************************)
(* SpecPix: the detector and the solidity checker on every small image.    *)
(***************************************************************************)
InitPix ==
  /\ pc = "call"
  /\ \E w \in 0 .. MaxW, h \in 0 .. MaxH :
       \E lit \in SUBSET Coords(w, h), lc \in PixLit, dc \in PixDark,
          threshold \in PixThresholds :
         arg = [image |-> PixImage(w, h, lit, lc, dc), threshold |-> threshold]
  /\ ret = None
  /\ ProgramIdle

CallBoundingBox ==
  /\ pc = "call"
  /\ pc' = "bbox"
  /\ ret' = [value |-> get_content_bounding_box(arg.image, arg.threshold)]
  /\ UNCHANGED <<arg, files, sheet, idx, sheets, report>>

CallRowExtents ==
  /\ pc = "call"
  /\ \E y_row \in 0 .. arg.image.h - 1 :
       ret' = [value |-> get_content_extents_at_row(arg.image, y_row, arg.threshold),
               y_row |-> y_row]
  /\ pc' = "extents"
  /\ UNCHANGED <<arg, files, sheet, idx, sheets, report>>

CallStripCheck ==
  /\ pc = "call"
  /\ \E check_width_px \in -1 .. MaxW :
       ret' = [value |-> check_strip_for_solid_lr_border(arg.image, check_width_px,
                                                         arg.threshold),
               check_width_px |-> check_width_px]
  /\ pc' = "strip"
  /\ UNCHANGED <<arg, files, sheet, idx, sheets, report>>

NextPix == CallBoundingBox \/ CallRowExtents \/ CallStripCheck

SpecPix == InitPix /\ [][NextPix]_vars

(***************************************************************************)
(* SpecCard: the classifier, the bottom trim and resize_card on every card *)
(* file.                                                                   *)
(***************************************************************************)
InitCard ==
  /\ pc = "open"
  /\ arg \in CardFiles
  /\ ret = None
  /\ ProgramIdle

RenderCard ==
  /\ pc = "open"
  /\ pc' = "rendered"
  /\ ret' = resize_card(OpenFile(arg), CARD_WIDTH_PX, CARD_HEIGHT_PX)
  /\ UNCHANGED <<arg, files, sheet, idx, sheets, report>>

Classify ==
  /\ pc = "open"
  /\ arg.decodes
  /\ \E edge \in EdgeWidths :
       ret' = [value |-> determine_card_type(Render(arg.desc), BLACK_BORDER_THRESHOLD,
                                             edge),
               edge |-> edge,
               top_zone |-> top_zone_box(arg.desc.w, arg.desc.h, edge),
               middle_zone |-> middle_zone_box(arg.desc.w, arg.desc.h, edge)]
  /\ pc' = "classified"
  /\ UNCHANGED <<arg, files, sheet, idx, sheets, report>>

TrimBottom ==
  /\ pc = "open"
  /\ arg.decodes
  /\ \E trim \in TrimValues :
       ret' = [value |-> borderless_crop(arg.desc.w, arg.desc.h, trim), trim |-> trim]
  /\ pc' = "trimmed"
  /\ UNCHANGED <<arg, files, sheet, idx, sheets, report>>

NextCard == RenderCard \/ Classify \/ TrimBottom

SpecCard == InitCard /\ [][NextCard]_vars

(***************************************************************************)
(* SpecCrop: the border-normalizing crop on frame images: content of       *)
(* content_w x content_h inside a solid frame of width frame, whose        *)
(* content bounding box is the content.                                    *)
(***************************************************************************)
MaxMult == 6
MaxDelta == 2
WStep == (CARD_WIDTH_PX - BORDER_LEFT_PX - BORDER_RIGHT_PX) \div 4
HStep == (CARD_HEIGHT_PX - BORDER_TOP_PX - BORDER_BOTTOM_PX) \div 4
\* Content of 63147 columns or 72450 rows puts border * content / artwork on
\* an exact half (3301.5 and 3637.5) where the double quotient of lines 302-305
\* falls below it; frames of 3301 and 3637 pixels hold those borders exactly.
ContentWidths ==
  ({m * WStep + d : m \in 0 .. MaxMult, d \in 0 .. MaxDelta} \ {0}) \cup {63147}
ContentHeights ==
  ({m * HStep + d : m \in 0 .. MaxMult, d \in 0 .. MaxDelta} \ {0}) \cup {72450}
FrameWidths == {1, 2, 36, 150, 300, 400, 3301, 3637}

InitCrop ==
  /\ pc = "frame"
  /\ arg \in [content_w : ContentWidths, content_h : ContentHeights,
              frame : FrameWidths]
  /\ ret = None
  /\ ProgramIdle

ComputeCrop ==
  /\ pc = "frame"
  /\ pc' = "cropped"
  /\ ret' = border_crop(<<arg.frame, arg.frame,
                          arg.frame + arg.content_w, arg.frame + arg.content_h>>,
                        arg.content_w + 2 * arg.frame, arg.content_h + 2 * arg.frame,
                        CARD_WIDTH_PX, CARD_HEIGHT_PX)
  /\ UNCHANGED <<arg, files, sheet, idx, sheets, report>>

NextCrop == ComputeCrop

SpecCrop == InitCrop /\ [][NextCrop]_vars

(***************************************************************************)
(* Spec: the program.  __main__ lists the folder, sorts the image paths,   *)
(* and composes one sheet per full chunk of nine; create_printable_sheet   *)
(* renders and pastes the cards of a chunk one cell at a time.  What a     *)
(* path holds is found when resize_card opens it.                          *)
(***************************************************************************)
MaxImages == 19

\* os.listdir: n image files named 1 .. n, in ascending or descending order,
\* with or without an entry that is no image.
Listing(n, descending, other) ==
  LET images == [k \in 1 .. n |->
                   [name |-> IF descending THEN n + 1 - k ELSE k, is_image |-> TRUE]]
  IN IF other THEN <<[name |-> 0, is_image |-> FALSE]>> \o images ELSE images

Listings ==
  {Listing(n, FALSE, FALSE) : n \in 0 .. MaxImages}
  \cup {Listing(n, TRUE, TRUE) : n \in 0 .. MaxImages}

\* lines 452-456
\* Variant: the paths kept in the order of the listing.
SortedImageFilesMutUnsorted(listing) ==
  LET kept == SelectSeq(listing, LAMBDA e : e.is_image)
  IN [k \in 1 .. Len(kept) |-> kept[k].name]
SortedImageFiles(listing) ==
  LET kept == SelectSeq(listing, LAMBDA e : e.is_image)
  IN SortSeq([k \in 1 .. Len(kept) |-> kept[k].name], LAMBDA a, b : a < b)

\* line 470
num_images_to_process_in_full_sheets(num_total_images) ==
  (num_total_images \div CARDS_PER_SHEET) * CARDS_PER_SHEET

\* lines 504-505: the files listed as left over.
LeftoverFiles(all_image_files) ==
  IF Len(all_image_files) % CARDS_PER_SHEET > 0
  THEN SubSeq(all_image_files,
              num_images_to_process_in_full_sheets(Len(all_image_files)) + 1,
              Len(all_image_files))
  ELSE <<>>

\* The paths of a sheet hold no file, a file that does not decode, or a small
\* image (SpecCard renders the card images).
SheetImage == [w |-> 3, h |-> 2, rects |-> {<<1, 0, 2, 1>>}]
SheetFiles == {MissingFile, CorruptFile,
               [exists |-> TRUE, decodes |-> TRUE, desc |-> SheetImage]}

Cells == (0 .. GRID_ROWS - 1) \X (0 .. GRID_COLS - 1)
Blank == [file |-> 0, x |-> 0, y |-> 0, size |-> None]
BlankSheet == [c \in Cells |-> Blank]

\* lines 399-401: the sheet with the card pasted at its cell.
\* Variant: the card pasted at the first cell not yet pasted.
PasteMutShift(cells, row, col, index, path, card) ==
  LET n == Cardinality({c \in Cells : cells[c] # Blank})
  IN [cells EXCEPT ![<<n \div GRID_COLS, n % GRID_COLS>>] =
        [file |-> path, x |-> MARGIN_X + (n % GRID_COLS) * CARD_WIDTH_PX,
         y |-> MARGIN_Y + (n \div GRID_COLS) * CARD_HEIGHT_PX, size |-> card.size]]
Paste(cells, row, col, index, path, card) ==
  [cells EXCEPT ![<<row, col>>] =
     [file |-> path, x |-> MARGIN_X + col * CARD_WIDTH_PX,
      y |-> MARGIN_Y + row * CARD_HEIGHT_PX, size |-> card.size]]

\* lines 434-435: the two paths entered.  The input path is a directory
\* holding a listing, or no directory; the output path is a directory, a path
\* that does not exist, or a file.
Init ==
  /\ pc = "paths"
  /\ \/ arg \in [listing : Listings, i : {0}, current_chunk_paths : {<<>>},
                 input_folder : {"directory"},
                 output_dir_path : {"directory", "absent", "file"}]
     \/ arg \in [listing : {<<>>}, i : {0}, current_chunk_paths : {<<>>},
                 input_folder : {"no_directory"},
                 output_dir_path : {"directory", "absent", "file"}]
  /\ ret = None
  /\ ProgramIdle

\* lines 437-439: the input path is not a directory.
ExitNoInputFolder ==
  /\ pc = "paths"
  /\ arg.input_folder # "directory"
  /\ report' = [exit |-> "no_input_folder", sheets_created |-> 0, leftover |-> <<>>]
  /\ pc' = "exit"
  /\ UNCHANGED <<arg, ret, files, sheet, idx, sheets>>

\* lines 441-447: the output path does not exist and os.makedirs raises OSError.
ExitOutputNotCreated ==
  /\ pc = "paths"
  /\ arg.input_folder = "directory"
  /\ arg.output_dir_path = "absent"
  /\ report' = [exit |-> "output_not_created", sheets_created |-> 0,
                leftover |-> <<>>]
  /\ pc' = "exit"
  /\ UNCHANGED <<arg, ret, files, sheet, idx, sheets>>

\* lines 448-450: the output path exists and is not a directory.
ExitOutputNotDirectory ==
  /\ pc = "paths"
  /\ arg.input_folder = "directory"
  /\ arg.output_dir_path = "file"
  /\ report' = [exit |-> "output_not_directory", sheets_created |-> 0,
                leftover |-> <<>>]
  /\ pc' = "exit"
  /\ UNCHANGED <<arg, ret, files, sheet, idx, sheets>>

\* lines 437-450: both paths pass; an output directory that did not exist was
\* created by os.makedirs.
OpenFolders ==
  /\ pc = "paths"
  /\ arg.input_folder = "directory"
  /\ arg.output_dir_path \in {"directory", "absent"}
  /\ arg' = [arg EXCEPT !.output_dir_path = "directory"]
  /\ pc' = "start"
  /\ UNCHANGED <<ret, files, sheet, idx, sheets, report>>

\* lines 452-463: no image in the folder.
ExitNoImages ==
  /\ pc = "start"
  /\ Len(SortedImageFiles(arg.listing)) = 0
  /\ files' = SortedImageFiles(arg.listing)
  /\ report' = [exit |-> "no_images", sheets_created |-> 0, leftover |-> <<>>]
  /\ pc' = "exit"
  /\ UNCHANGED <<arg, ret, sheet, idx, sheets>>

\* lines 452-467: fewer than nine images.
ExitTooFew ==
  /\ pc = "start"
  /\ Len(SortedImageFiles(arg.listing)) > 0
  /\ Len(SortedImageFiles(arg.listing)) < CARDS_PER_SHEET
  /\ files' = SortedImageFiles(arg.listing)
  /\ report' = [exit |-> "too_few", sheets_created |-> 0, leftover |-> <<>>]
  /\ pc' = "exit"
  /\ UNCHANGED <<arg, ret, sheet, idx, sheets>>

\* lines 452-477: nine images or more.
StartBatch ==
  /\ pc = "start"
  /\ Len(SortedImageFiles(arg.listing)) >= CARDS_PER_SHEET
  /\ files' = SortedImageFiles(arg.listing)
  /\ pc' = "batch"
  /\ UNCHANGED <<arg, ret, sheet, idx, sheets, report>>

\* lines 479-489 and 389-392: the next chunk, and an empty sheet for it.
BeginSheet ==
  /\ pc = "batch"
  /\ arg.i < num_images_to_process_in_full_sheets(Len(files))
  /\ arg' = [arg EXCEPT !.current_chunk_paths =
                          SubSeq(files, arg.i + 1,
                                 Min(arg.i + CARDS_PER_SHEET, Len(files)))]
  /\ sheet' = BlankSheet
  /\ idx' = [row |-> 0, col |-> 0, current_image_index |-> 0]
  /\ ret' = [outcomes |-> <<>>, file |-> MissingFile, card |-> NoCard("")]
  /\ pc' = "compose"
  /\ UNCHANGED <<files, sheets, report>>

LoopDone ==
  idx.row >= GRID_ROWS \/ idx.current_image_index >= Len(arg.current_chunk_paths)

\* lines 393-406: one cell: render the card, paste it unless it is None, and
\* move to the next cell.
ProcessCell ==
  /\ pc = "compose"
  /\ ~LoopDone
  /\ \E f \in SheetFiles :
       LET image_path == arg.current_chunk_paths[idx.current_image_index + 1]
           card_img == resize_card(OpenFile(f), CARD_WIDTH_PX, CARD_HEIGHT_PX)
       IN /\ sheet' = IF card_img.outcome = "card"
                      THEN Paste(sheet, idx.row, idx.col, idx.current_image_index,
                                 image_path, card_img)
                      ELSE sheet
          /\ ret' = [outcomes |-> Append(ret.outcomes, card_img.outcome),
                     file |-> f, card |-> card_img]
  /\ idx' = [row |-> IF idx.col + 1 = GRID_COLS THEN idx.row + 1 ELSE idx.row,
             col |-> IF idx.col + 1 = GRID_COLS THEN 0 ELSE idx.col + 1,
             current_image_index |-> idx.current_image_index + 1]
  /\ UNCHANGED <<pc, arg, files, sheets, report>>

\* lines 408-422 and 490: draw the cut guides and save; a failed save is
\* reported and the sheet is counted all the same.
SaveSheet ==
  /\ pc = "compose"
  /\ LoopDone
  /\ \E saved \in BOOLEAN :
       sheets' = Append(sheets, [chunk |-> arg.current_chunk_paths, saved |-> saved])
  /\ arg' = [arg EXCEPT !.i = arg.i + CARDS_PER_SHEET]
  /\ pc' = "batch"
  /\ UNCHANGED <<ret, files, sheet, idx, report>>

\* lines 492-505
Summary ==
  /\ pc = "batch"
  /\ arg.i >= num_images_to_process_in_full_sheets(Len(files))
  /\ report' = [exit |-> "", sheets_created |-> Len(sheets),
                leftover |-> LeftoverFiles(files)]
  /\ pc' = "done"
  /\ UNCHANGED <<arg, ret, files, sheet, idx, sheets>>

Next ==
  \/ ExitNoInputFolder \/ ExitOutputNotCreated \/ ExitOutputNotDirectory
  \/ OpenFolders
  \/ ExitNoImages \/ ExitTooFew \/ StartBatch
  \/ BeginSheet \/ ProcessCell \/ SaveSheet \/ Summary

Spec == Init /\ [][Next]_vars

(***************************************************************************)
(* Properties.                                                             *)
(***************************************************************************)
TargetSize == <<CARD_WIDTH_PX, CARD_HEIGHT_PX>>

\* C1: every file that opens (any size, any frame type, with or without a
\* content bounding box, on every fallback path) is rendered to a card of
\* exactly the target size, and no path raises.
C1_ExactTargetSize ==
  pc = "rendered" /\ arg.exists /\ arg.decodes
    => ret.outcome = "card" /\ ret.size = TargetSize

\* An extended_art card whose effective content box is degenerate, rendered
\* from a copy of the whole original.
C1_Witness ==
  /\ pc = "rendered"
  /\ ret.card_type = "extended_art"
  /\ ret.branch = "full_degenerate"
  /\ ret.size = TargetSize

\* The border left on one side of the final card is kept * target / crop
\* pixels wide: it is within 1 px of border iff
\* |kept * target - border * crop| <= crop.
BorderWithin1(kept, border, crop_len, target_len) ==
  /\ kept * target_len - border * crop_len <= crop_len
  /\ border * crop_len - kept * target_len <= crop_len

AllBordersWithin1(eff, box) ==
  /\ BorderWithin1(eff[1] - box[1], BORDER_LEFT_PX, box[3] - box[1], CARD_WIDTH_PX)
  /\ BorderWithin1(box[3] - eff[3], BORDER_RIGHT_PX, box[3] - box[1], CARD_WIDTH_PX)
  /\ BorderWithin1(eff[2] - box[2], BORDER_TOP_PX, box[4] - box[2], CARD_HEIGHT_PX)
  /\ BorderWithin1(box[4] - eff[4], BORDER_BOTTOM_PX, box[4] - box[2], CARD_HEIGHT_PX)

FrameContent == <<arg.frame, arg.frame, arg.frame + arg.content_w,
                  arg.frame + arg.content_h>>
ArtworkWidth == CARD_WIDTH_PX - BORDER_LEFT_PX - BORDER_RIGHT_PX
ArtworkHeight == CARD_HEIGHT_PX - BORDER_TOP_PX - BORDER_BOTTOM_PX

\* The frame holds the back-projected border round(border / scale) on every
\* side, so that the expansion is not clamped at the image bounds.
FrameHoldsBorders ==
  /\ arg.frame >= keep_orig_border_px(BORDER_LEFT_PX, ArtworkWidth, arg.content_w)
  /\ arg.frame >= keep_orig_border_px(BORDER_RIGHT_PX, ArtworkWidth, arg.content_w)
  /\ arg.frame >= keep_orig_border_px(BORDER_TOP_PX, ArtworkHeight, arg.content_h)
  /\ arg.frame >= keep_orig_border_px(BORDER_BOTTOM_PX, ArtworkHeight, arg.content_h)

\* C2 as stated: for any frame width, resolution and aspect ratio the four
\* borders of the final card are within 1 px of the configured widths.
C2_AnyFrameWithin1 ==
  pc = "cropped" => AllBordersWithin1(FrameContent, ret.box)

\* C2 as amended: the four borders are within 1 px of the configured widths
\* when the frame is at least as wide as the back-projected border on every
\* side and the content is at least as large as the target artwork area.
C2_BordersWithin1 ==
  pc = "cropped" /\ FrameHoldsBorders
  /\ arg.content_w >= ArtworkWidth /\ arg.content_h >= ArtworkHeight
    => ret.branch = "proportional" /\ AllBordersWithin1(FrameContent, ret.box)

\* A downscaled card of another aspect ratio than the target artwork, whose
\* frame is wider than the border kept on every side.
C2_Witness ==
  /\ pc = "cropped" /\ FrameHoldsBorders
  /\ arg.content_w >= ArtworkWidth + WStep /\ arg.content_h = ArtworkHeight
  /\ ret.box[1] > 0 /\ ret.box[2] > 0
  /\ AllBordersWithin1(FrameContent, ret.box)

PixContent == {p \in Coords(arg.image.w, arg.image.h) :
                 \E ch \in 1 .. 3 : arg.image.px[p][ch] > arg.threshold}

\* C3: get_content_bounding_box returns None exactly when the image has zero
\* width or height or no content pixel; otherwise every content pixel lies in
\* the returned half-open box and each of its four edges holds a content pixel.
C3_MinimalBoundingBox ==
  pc = "bbox" =>
    /\ ret.value = None <=> PixContent = {}
    /\ ret.value # None =>
         /\ \A p \in PixContent :
              /\ ret.value[1] <= p[1] /\ p[1] < ret.value[3]
              /\ ret.value[2] <= p[2] /\ p[2] < ret.value[4]
         /\ \E p \in PixContent : p[1] = ret.value[1]
         /\ \E p \in PixContent : p[1] = ret.value[3] - 1
         /\ \E p \in PixContent : p[2] = ret.value[2]
         /\ \E p \in PixContent : p[2] = ret.value[4] - 1

\* A box narrower than the image that holds a background pixel.
C3_Witness ==
  /\ pc = "bbox" /\ ret.value # None
  /\ ret.value[3] - ret.value[1] = 2 /\ arg.image.w = 3
  /\ ret.value[4] - ret.value[2] = 2
  /\ Cardinality(PixContent) = 2

RowContent == {x \in 0 .. arg.image.w - 1 : <<x, ret.y_row>> \in PixContent}

\* C4: on an in-bounds row get_content_extents_at_row returns the leftmost and
\* the rightmost content column, and the no-content result exactly when the
\* row holds no content pixel.
C4_RowExtents ==
  pc = "extents" =>
    /\ ret.value = None <=> RowContent = {}
    /\ ret.value # None =>
         /\ ret.value[1] \in RowContent /\ ret.value[2] \in RowContent
         /\ \A x \in RowContent : ret.value[1] <= x /\ x <= ret.value[2]

\* A row whose leftmost and rightmost content pixels have background between.
C4_Witness ==
  /\ pc = "extents" /\ ret.value # None
  /\ ret.value[2] = ret.value[1] + 2
  /\ ret.value[1] + 1 \notin RowContent

\* C5: check_strip_for_solid_lr_border is true iff the edge width is positive,
\* the strip has rows and is at least two edge widths wide, and no pixel of the
\* leftmost and rightmost edge columns is content.
C5_SolidIff ==
  pc = "strip" =>
    (ret.value <=>
       /\ ret.check_width_px > 0
       /\ arg.image.h > 0
       /\ arg.image.w >= 2 * ret.check_width_px
       /\ \A p \in PixContent :
            /\ p[1] >= ret.check_width_px
            /\ p[1] < arg.image.w - ret.check_width_px)

\* A strip found solid although it holds content between its edge columns.
C5_Witness ==
  /\ pc = "strip" /\ ret.value
  /\ PixContent # {}
  /\ arg.image.h = 2

\* Whether the rows of a zone that lie in the drawn image hold no content in
\* the leftmost and the rightmost edge columns.
ZoneSolid(desc, zone, edge) ==
  /\ edge > 0
  /\ desc.w >= 2 * edge
  /\ \A x \in (0 .. edge - 1) \cup (desc.w - edge .. desc.w - 1) :
       \A y \in zone[2] .. Min(zone[4], desc.h) - 1 :
         ~\E r \in desc.rects : InRect(<<x, y>>, r)

\* C6: determine_card_type returns borderless below 20 rows; otherwise standard
\* when the top and the middle zone are solid, extended_art when only the top
\* zone is, and borderless whenever the top zone is not.
C6_ClassificationTable ==
  pc = "classified" =>
    LET top == ZoneSolid(arg.desc, ret.top_zone, ret.edge)
        middle == ZoneSolid(arg.desc, ret.middle_zone, ret.edge)
    IN /\ ret.value \in {"standard", "extended_art", "borderless"}
       /\ arg.desc.h < MIN_CLASSIFY_HEIGHT => ret.value = "borderless"
       /\ arg.desc.h >= MIN_CLASSIFY_HEIGHT =>
            /\ top /\ middle => ret.value = "standard"
            /\ top /\ ~middle => ret.value = "extended_art"
            /\ ~top => ret.value = "borderless"

\* An image of 20 rows or more whose middle zone is solid and whose top zone
\* is not: borderless.
C6_Witness ==
  /\ pc = "classified"
  /\ arg.desc.h >= MIN_CLASSIFY_HEIGHT
  /\ ret.edge = EDGE_ZONE_CHECK_WIDTH_PX
  /\ ZoneSolid(arg.desc, ret.middle_zone, ret.edge)
  /\ ~ZoneSolid(arg.desc, ret.top_zone, ret.edge)
  /\ ret.value = "borderless"

BottomTrimOnly(width, height, trim, cropped) ==
  /\ trim > 0 /\ trim < height =>
       cropped.box = <<0, 0, width, height - trim>> /\ cropped.branch = "trim"
  /\ trim > 0 /\ trim >= height =>
       cropped.box = <<0, 0, width, 1>> /\ cropped.branch = "trim_to_1px"
  /\ trim = 0 =>
       cropped.box = <<0, 0, width, height>> /\ cropped.branch = "as_is"

\* C7: the borderless path keeps the full width and rows [0, H - T) when
\* 0 < T < H, one row when T >= H, and the whole image when T = 0.
C7_BottomTrim ==
  /\ pc = "trimmed" =>
       BottomTrimOnly(arg.desc.w, arg.desc.h, ret.trim, ret.value)
  /\ pc = "rendered" /\ ret.card_type = "borderless" =>
       BottomTrimOnly(arg.desc.w, arg.desc.h, FULL_ART_BOTTOM_CROP_PX, ret)

\* A borderless card taller than the trim, rendered from its rows above it.
C7_Witness ==
  /\ pc = "rendered" /\ ret.card_type = "borderless"
  /\ arg.desc.h > FULL_ART_BOTTOM_CROP_PX + 1
  /\ ret.box = <<0, 0, arg.desc.w, arg.desc.h - FULL_ART_BOTTOM_CROP_PX>>
  /\ ret.size = TargetSize

NumImages == Cardinality({k \in 1 .. Len(arg.listing) : arg.listing[k].is_image})
Finished == pc = "done" \/ pc = "exit"

\* Sheet k holds the images at positions 9(k-1)+1 .. 9k of the sorted list
\* (the images are named 1 .. N, so the sorted list is 1, 2, .., N).
FullSheetsInOrder ==
  /\ Len(sheets) = NumImages \div CARDS_PER_SHEET
  /\ report.sheets_created = Len(sheets)
  /\ \A k \in 1 .. Len(sheets) :
       sheets[k].chunk = [j \in 1 .. CARDS_PER_SHEET |-> CARDS_PER_SHEET * (k - 1) + j]

RemainingImages ==
  [j \in 1 .. NumImages % CARDS_PER_SHEET |->
     CARDS_PER_SHEET * (NumImages \div CARDS_PER_SHEET) + j]

\* C8 as stated: for any number N of images the run makes floor(N / 9) sheets
\* of consecutive sorted images and reports the other N mod 9 as left over.
C8_AnyCountReported ==
  Finished => FullSheetsInOrder /\ report.leftover = RemainingImages

\* The input path is a directory and the output directory exists or was made.
FoldersReady ==
  arg.input_folder = "directory" /\ arg.output_dir_path = "directory"

\* C8 as amended: when the input path is a directory and the output directory
\* exists or can be created, for N >= 9 the run makes floor(N / 9) sheets of
\* consecutive sorted images and reports the other N mod 9 as left over, and
\* for N < 9 it exits with no sheet and no leftover list; otherwise it exits
\* before listing the folder, with no sheet and no leftover list.
C8_FullSheetsAndLeftover ==
  Finished =>
    /\ FoldersReady =>
         /\ FullSheetsInOrder
         /\ NumImages >= CARDS_PER_SHEET =>
              pc = "done" /\ report.leftover = RemainingImages
         /\ NumImages < CARDS_PER_SHEET =>
              pc = "exit" /\ report.leftover = <<>> /\ sheets = <<>>
    /\ ~FoldersReady =>
         /\ pc = "exit" /\ files = <<>>
         /\ report.sheets_created = 0 /\ report.leftover = <<>> /\ sheets = <<>>

\* Nineteen images listed out of order beside another file: two sheets and
\* one image reported left over.
C8_Witness ==
  /\ pc = "done"
  /\ NumImages = 2 * CARDS_PER_SHEET + 1
  /\ arg.listing[1].is_image = FALSE
  /\ Len(sheets) = 2
  /\ sheets[2].chunk[1] = CARDS_PER_SHEET + 1
  /\ report.leftover = <<2 * CARDS_PER_SHEET + 1>>

\* The cells of a sheet after the cards of `outcomes` were rendered from
\* `chunk`: card i is at cell (i div 3, i mod 3) unless it is None, and every
\* other cell is blank.
CellsMatch(cells, chunk, outcomes) ==
  \A c \in Cells :
    LET i == c[1] * GRID_COLS + c[2]
    IN IF i < Len(outcomes) /\ outcomes[i + 1] = "card"
       THEN cells[c] = [file |-> chunk[i + 1],
                        x |-> MARGIN_X + (i % GRID_COLS) * CARD_WIDTH_PX,
                        y |-> MARGIN_Y + (i \div GRID_COLS) * CARD_HEIGHT_PX,
                        size |-> TargetSize]
       ELSE cells[c] = Blank

\* C9: a missing or undecodable file makes resize_card return None; its cell
\* stays blank, every other card i of the chunk is pasted at cell
\* (i div 3, i mod 3), and the sheet is completed.
C9_FailedCardLeavesCellBlank ==
  /\ pc = "compose" =>
       /\ Len(ret.outcomes) = idx.current_image_index
       /\ Len(ret.outcomes) > 0 =>
            /\ ret.card.outcome = ret.outcomes[Len(ret.outcomes)]
            /\ ret.card.outcome = "none" <=> ~(ret.file.exists /\ ret.file.decodes)
       /\ CellsMatch(sheet, arg.current_chunk_paths, ret.outcomes)
  /\ pc = "compose" /\ LoopDone =>
       Len(ret.outcomes) = Len(arg.current_chunk_paths)

\* A second sheet, composed to its end, whose second card failed and whose
\* third card is in the third cell of the first row.
C9_Witness ==
  /\ pc = "compose" /\ LoopDone
  /\ Len(sheets) = 1
  /\ ret.outcomes[2] = "none"
  /\ ret.outcomes[3] = "card"
  /\ sheet[<<0, 1>>] = Blank
  /\ sheet[<<0, 2>>].file = arg.current_chunk_paths[3]
  /\ sheet[<<2, 2>>].file = arg.current_chunk_paths[9]

\* C10: for every image of 20 rows or more and every edge check width, the top
\* zone is rows [0, t) with 1 <= t <= height and the middle zone is rows
\* [m, m + h) with 0 <= m, h >= 1 and m + h <= height.
C10_ZonesInsideImage ==
  pc = "classified" /\ arg.desc.h >= MIN_CLASSIFY_HEIGHT =>
    /\ ret.top_zone[2] = 0
    /\ 1 <= ret.top_zone[4] /\ ret.top_zone[4] <= arg.desc.h
    /\ 0 <= ret.middle_zone[2]
    /\ ret.middle_zone[4] - ret.middle_zone[2] >= 1
    /\ ret.middle_zone[4] <= arg.desc.h

(***************************************************************************)
(* The extended-art row scan of resize_card, on the card files.            *)
(***************************************************************************)
\* The columns of row y of the drawn image that hold content.
CardRowContent(desc, y) ==
  {x \in 0 .. desc.w - 1 :
     IsContent(Render(desc).px[<<x, y>>], BLACK_BORDER_THRESHOLD)}

\* The first row of content of the drawn image, and the row the scan samples.
ContentTopY(desc) ==
  SetMin({p[2] : p \in {q \in Coords(desc.w, desc.h) :
                          IsContent(Render(desc).px[q], BLACK_BORDER_THRESHOLD)}})
ScanRow(desc) == ContentTopY(desc) + EXTENDED_ART_SCAN_OFFSET_Y_PX

ExtendedArtRendered ==
  pc = "rendered" /\ arg.exists /\ arg.decodes /\ ret.card_type = "extended_art"

\* C11: on the extended_art path, when the scan row content_top_y + 142 is
\* outside [0, height) or holds no content pixel, the effective content box is
\* the overall content bounding box on all four sides, and the card is
\* rendered without an error.
C11_ScanFallsBackToOverallBox ==
  ExtendedArtRendered
    /\ (ScanRow(arg.desc) < 0 \/ ScanRow(arg.desc) >= arg.desc.h
          \/ CardRowContent(arg.desc, ScanRow(arg.desc)) = {})
    => /\ ret.overall # None
       /\ ret.effective = ret.overall
       /\ ret.outcome = "card"
       /\ ret.error = ""

\* An extended_art card whose scan row is inside the image and empty, and
\* whose overall content box is not the whole image.
C11_Witness ==
  /\ ExtendedArtRendered
  /\ ScanRow(arg.desc) < arg.desc.h
  /\ CardRowContent(arg.desc, ScanRow(arg.desc)) = {}
  /\ ret.effective = ret.overall
  /\ ret.overall # <<0, 0, arg.desc.w, arg.desc.h>>
  /\ ret.outcome = "card"

\* An extended_art card too short for the scan row: the row is below the image.
C11_WitnessOutOfBounds ==
  /\ ExtendedArtRendered
  /\ ScanRow(arg.desc) >= arg.desc.h
  /\ ret.effective = ret.overall
  /\ ret.overall # <<0, 0, arg.desc.w, arg.desc.h>>
  /\ ret.outcome = "card"

\* C12: on the extended_art path, when the scanned row holds content, the
\* effective content box (cx0, cy0, cx1, cy1) is half-open and encloses the
\* row's content: cx0 is the leftmost content column, the rightmost content
\* column is below cx1, and cx1 - cx0 is the number of columns from the
\* leftmost to the rightmost content pixel inclusive.
C12_HalfOpenRowBox ==
  ExtendedArtRendered
    /\ ScanRow(arg.desc) < arg.desc.h
    /\ CardRowContent(arg.desc, ScanRow(arg.desc)) # {}
    => LET row == CardRowContent(arg.desc, ScanRow(arg.desc))
       IN /\ ret.effective[1] = SetMin(row)
          /\ SetMax(row) < ret.effective[3]
          /\ ret.effective[3] - ret.effective[1] = SetMax(row) - SetMin(row) + 1

\* What the code computes instead: cx1 is the rightmost content column itself,
\* so the box is one column narrower than the row's content.
C12_RowBoxEndsOnLastColumn ==
  ExtendedArtRendered
    /\ ScanRow(arg.desc) < arg.desc.h
    /\ CardRowContent(arg.desc, ScanRow(arg.desc)) # {}
    => LET row == CardRowContent(arg.desc, ScanRow(arg.desc))
       IN /\ ret.effective[1] = SetMin(row)
          /\ ret.effective[3] = SetMax(row)
          /\ ret.effective[2] = ret.overall[2]
          /\ ret.effective[4] = ret.overall[4]

\* A scan row holding a single content pixel: the effective box has width 0
\* and the card is rendered from the whole original.
C12_SinglePixelRow ==
  /\ ExtendedArtRendered
  /\ ScanRow(arg.desc) < arg.desc.h
  /\ Cardinality(CardRowContent(arg.desc, ScanRow(arg.desc))) = 1
  /\ ret.effective[3] - ret.effective[1] = 0
  /\ ret.branch = "full_degenerate"

\* A scan row holding several content pixels: the effective box is short of
\* the last one.
C12_WideRow ==
  /\ ExtendedArtRendered
  /\ ScanRow(arg.desc) < arg.desc.h
  /\ Cardinality(CardRowContent(arg.desc, ScanRow(arg.desc))) > 1
  /\ ret.effective[3] = SetMax(CardRowContent(arg.desc, ScanRow(arg.desc)))
  /\ ret.branch = "proportional"

(***************************************************************************)
(* The expanded crop rectangle of resize_card, on the card files.          *)
(***************************************************************************)
BorderPathRendered ==
  /\ pc = "rendered" /\ arg.exists /\ arg.decodes
  /\ ret.card_type \in {"standard", "extended_art"}
  /\ ret.effective[3] - ret.effective[1] > 0
  /\ ret.effective[4] - ret.effective[2] > 0

\* C13: on the standard and extended_art paths, whenever the effective
\* content box has positive width and height, the expanded crop rectangle
\* satisfies 0 <= crop_x0 <= cx0 < cx1 <= crop_x1 <= width and
\* 0 <= crop_y0 <= cy0 < cy1 <= crop_y1 <= height, and the image handed to the
\* resize is that rectangle: neither fallback of the expansion step is taken.
C13_CropRectangleInsideImage ==
  BorderPathRendered =>
    /\ ret.branch = "proportional"
    /\ 0 <= ret.box[1] /\ ret.box[1] <= ret.effective[1]
    /\ ret.effective[1] < ret.effective[3]
    /\ ret.effective[3] <= ret.box[3] /\ ret.box[3] <= arg.desc.w
    /\ 0 <= ret.box[2] /\ ret.box[2] <= ret.effective[2]
    /\ ret.effective[2] < ret.effective[4]
    /\ ret.effective[4] <= ret.box[4] /\ ret.box[4] <= arg.desc.h

\* A standard card whose content starts on the first row: the rectangle is
\* clamped at the top edge and grows beyond the content on the other sides.
C13_Witness ==
  /\ BorderPathRendered
  /\ ret.card_type = "standard"
  /\ ret.branch = "proportional"
  /\ ret.effective[2] = 0 /\ ret.box[2] = 0
  /\ ret.box[1] < ret.effective[1]
  /\ ret.box[3] > ret.effective[3]
  /\ ret.box[4] > ret.effective[4]

\* An extended_art card whose scanned row gave the horizontal extent, with the
\* rectangle clamped at the left edge.
C13_WitnessExtendedArt ==
  /\ BorderPathRendered
  /\ ret.card_type = "extended_art"
  /\ ret.branch = "proportional"
  /\ ret.effective # ret.overall
  /\ ret.effective[1] = 0 /\ ret.box[1] = 0
  /\ ret.box[3] > ret.effective[3]

\* A card whose content is 63147 columns wide in a frame of 3301 pixels: the
\* quotient 142 * 63147 / 2716 is 3301.5, the code keeps 3301 columns on each
\* side, and the borders of the final card are within 1 px.
C2_WitnessHalfwayQuotient ==
  /\ pc = "cropped" /\ FrameHoldsBorders
  /\ arg.content_w = 63147 /\ arg.content_h >= ArtworkHeight /\ arg.frame = 3301
  /\ ret.box[1] = 0 /\ ret.box[3] = arg.content_w + 2 * arg.frame
  /\ AllBordersWithin1(FrameContent, ret.box)

====
